---- MODULE Spec2Model ----
(***************************************************************************)
(* food-advice-agent: the orchestrator Lambda (generate -> parse -> buffer *)
(* -> batched insert) and the report-stats Lambda, as state machines.      *)
(* Python values are tagged records: [t |-> "none"], [t |-> "int", n],     *)
(* [t |-> "str", enc, v], [t |-> "list", items], [t |-> "dict", ...].       *)
(* A str with enc = TRUE is the JSON text json.dumps(v); with enc = FALSE  *)
(* it is the text v itself, which json.loads rejects.                      *)
(***************************************************************************)
EXTENDS Integers, Sequences, FiniteSets, TLC

\* ------------------------------------------------------------------ bounds
MaxRuns == 25

\* ------------------------------------------------------- program constants
BatchRuns == 10
FoodsPerAnswer == 3
RowsCap == 10000
\* variant: only 5xx statuses are errors
ErrorStatusFloorServer == 400 + 100
ErrorStatusFloor == 400

Procs == {1, 2}

\* ---------------------------------------------------------- Python values
None == [t |-> "none"]
Absent == [t |-> "absent"]
PyInt(n) == [t |-> "int", n |-> n]
PyFloat(whole, frac) == [t |-> "float", whole |-> whole, frac |-> frac]
\* a str the model treats as one token, and a str spelled out in characters
Text(s) == [t |-> "str", enc |-> FALSE, v |-> s]
Chars(cs) == [t |-> "str", enc |-> FALSE, cs |-> cs]
IsChars(v) == "cs" \in DOMAIN v
PyList(items) == [t |-> "list", items |-> items]

\* json.dumps(v): the JSON text of v
JsonDumps(v) == [t |-> "str", enc |-> TRUE, v |-> v]

\* json.loads(s): the value a JSON text encodes, or JSONDecodeError
JsonLoads(s) ==
  IF s.enc THEN [ok |-> TRUE, v |-> s.v] ELSE [ok |-> FALSE, v |-> None]

\* Python truthiness, as used by `x or default`
Truthy(v) ==
  CASE v.t \in {"none", "absent"} -> FALSE
    [] v.t = "int" -> v.n # 0
    [] v.t = "float" -> v.whole # 0 \/ v.frac
    [] v.t = "str" -> IF v.enc THEN TRUE
                     ELSE IF IsChars(v) THEN v.cs # <<>> ELSE v.v # ""
    [] v.t = "list" -> v.items # <<>>
    [] OTHER -> TRUE

\* dict.get(key) returns None for a missing key
GetOrNone(v) == IF v.t = "absent" THEN None ELSE v

\* str.strip() on the texts the model uses
Strip(s) ==
  CASE s = " Paella " -> "Paella"
    [] s = " Biryani; Paella; Moussaka " -> "Biryani; Paella; Moussaka"
    [] s = "  " -> ""
    [] OTHER -> s

\* int(str): optional sign, then one or more decimal digits
DigitChars == {"0", "1", "2", "3", "4", "5", "6", "7", "8", "9"}

DigitVal(c) ==
  CASE c = "0" -> 0 [] c = "1" -> 1 [] c = "2" -> 2 [] c = "3" -> 3
    [] c = "4" -> 4 [] c = "5" -> 5 [] c = "6" -> 6 [] c = "7" -> 7
    [] c = "8" -> 8 [] c = "9" -> 9

RECURSIVE DigitsValue(_, _)
DigitsValue(cs, acc) ==
  IF cs = <<>> THEN acc
  ELSE DigitsValue(Tail(cs), acc * 10 + DigitVal(Head(cs)))

IntOfChars(cs) ==
  LET signed == cs # <<>> /\ Head(cs) \in {"-", "+"}
      digits == IF signed THEN Tail(cs) ELSE cs
      ok == digits # <<>> /\ \A k \in 1..Len(digits) : digits[k] \in DigitChars
      mag == IF ok THEN DigitsValue(digits, 0) ELSE 0
  IN [ok |-> ok, n |-> IF signed /\ Head(cs) = "-" THEN 0 - mag ELSE mag]

\* int(x) for the values a request can carry
IntOf(v) ==
  CASE v.t = "int" -> [ok |-> TRUE, n |-> v.n, exc |-> "none"]
    [] v.t = "float" -> [ok |-> TRUE, n |-> v.whole, exc |-> "none"]
    [] v.t = "str" ->
         LET r == IF IsChars(v) THEN IntOfChars(v.cs) ELSE [ok |-> FALSE, n |-> 0]
         IN [ok |-> r.ok, n |-> r.n, exc |-> IF r.ok THEN "none" ELSE "ValueError"]
    [] OTHER -> [ok |-> FALSE, n |-> 0, exc |-> "TypeError"]

\* ------------------------------------------------------------- exceptions
ExceptionTypes ==
  {"RuntimeError", "ValueError", "JSONDecodeError", "ClientError",
   "AttributeError", "TypeError", "KeyError", "OperationalError"}

\* JSONDecodeError is a subclass of ValueError
ValueErrorTypes == {"ValueError", "JSONDecodeError"}

Exc(type, msg) == [type |-> type, msg |-> msg]

Ok(v) == [ok |-> TRUE, v |-> v, exc |-> Exc("none", "")]
Err(type, msg) == [ok |-> FALSE, v |-> None, exc |-> Exc(type, msg)]

\* ------------------------------------------------ orchestrator: requests
ReqDict(rv) == [t |-> "dict", runs |-> rv]
EmptyDict == ReqDict(Absent)

DirectEvent(rv) == [shape |-> "direct", raw |-> ReqDict(rv)]
BodyEvent(b) == [shape |-> "body", body |-> b]
NotDictEvent == [shape |-> "not_dict"]

\* values of "runs" a caller can send
ValidRuns == {PyInt(n) : n \in 1..MaxRuns}
OtherRuns ==
  {Absent, None, PyInt(0), PyInt(0 - 1), PyInt(0 - 7), Chars(<<>>),
   Chars(<<"0">>), Chars(<<"-", "2">>), Chars(<<"a", "b", "c">>),
   Chars(<<"1", "0", "x">>), Text("ten"), PyFloat(0, TRUE), PyList(<<PyInt(1)>>),
   PyList(<<>>)}
StringRuns == {Chars(<<"3">>), Chars(<<"1", "1">>), PyFloat(2, TRUE)}

Events ==
  {DirectEvent(rv) : rv \in ValidRuns \cup OtherRuns \cup StringRuns}
  \cup {BodyEvent(JsonDumps(ReqDict(rv))) :
          rv \in {PyInt(2), PyInt(0), Absent, Chars(<<"a", "b", "c">>)}}
  \cup {BodyEvent(ReqDict(rv)) : rv \in {PyInt(12), Text("ten"), None}}
  \cup {BodyEvent(Text("")), BodyEvent(Text("{runs:")), BodyEvent(None),
        BodyEvent(JsonDumps(PyList(<<>>))), NotDictEvent}

\* ------------------------------------------- orchestrator: collaborators
Envelope(status, body) == [t |-> "dict", statusCode |-> status, body |-> body]
Payload(env) == [kind |-> "payload", raw |-> JsonDumps(env)]
BadPayload == [kind |-> "payload", raw |-> Text("<html>")]
InvokeFailed == [kind |-> "client_error"]

FoodsDict(f) == [t |-> "dict", favorite_foods |-> f, error |-> Absent]
ErrDict(msg) == [t |-> "dict", favorite_foods |-> Absent, error |-> Text(msg)]

Entry(name, diet) ==
  [t |-> "dict", name |-> Text(name),
   possible_ingredients |-> PyList(<<"rice", "salt", "oil", "onion">>),
   diet |-> Text(diet)]

GoodFoods ==
  <<Entry("Biryani", "normal"), Entry(" Paella ", "normal"), Entry("Falafel", "vegan")>>

GenResponses ==
  {InvokeFailed, BadPayload,
   Payload(Envelope(PyInt(500), Text("boom"))),
   Payload(Envelope(PyInt(200), Text("Biryani; Paella; Moussaka"))),
   Payload(Envelope(None, Text(" Biryani; Paella; Moussaka "))),
   Payload(Envelope(PyInt(200), JsonDumps(ErrDict("Parser failed to produce valid JSON"))))}

ParserResponses ==
  {InvokeFailed, BadPayload,
   Payload(Envelope(PyInt(500), Text("boom"))),
   Payload(Envelope(PyInt(400), JsonDumps(ErrDict("Missing 'answer' in body")))),
   Payload(Envelope(PyInt(200), JsonDumps(ErrDict("Invalid answer. Provide only food dishes.")))),
   Payload(Envelope(PyInt(200), Text("sorry, no JSON"))),
   Payload(Envelope(PyInt(200), JsonDumps(PyList(<<>>)))),
   Payload(Envelope(PyInt(200), JsonDumps(FoodsDict(Text("a; b; c"))))),
   Payload(Envelope(PyInt(200), JsonDumps(FoodsDict(PyList(<<>>))))),
   Payload(Envelope(PyInt(200), JsonDumps(FoodsDict(PyList(SubSeq(GoodFoods, 1, 2)))))),
   Payload(Envelope(PyInt(200), JsonDumps(FoodsDict(PyList(GoodFoods \o <<Entry("Ramen", "normal")>>))))),
   Payload(Envelope(PyInt(200), JsonDumps(FoodsDict(PyList(<<GoodFoods[1], Text("Paella"), GoodFoods[3]>>))))),
   Payload(Envelope(PyInt(200), JsonDumps(FoodsDict(PyList(GoodFoods))))),
   Payload(Envelope(PyInt(200), FoodsDict(PyList(GoodFoods)))),
   Payload(Envelope(None, JsonDumps(JsonDumps(FoodsDict(PyList(GoodFoods))))))}

\* _invoke_lambda: unwrap the {statusCode, body} envelope of one invocation
InvokeLambda(inv) ==
  IF inv.kind = "client_error" THEN Err("ClientError", "invoke failed")
  ELSE LET e == JsonLoads(inv.raw) IN
    IF ~e.ok THEN Err("JSONDecodeError", "invalid envelope")
    ELSE IF e.v.t # "dict" THEN Err("AttributeError", "no attribute get")
    ELSE LET status == GetOrNone(e.v.statusCode)
             body == GetOrNone(e.v.body)
         IN IF Truthy(status) /\ ~IntOf(status).ok
              THEN Err(IntOf(status).exc, "bad status")
            ELSE IF Truthy(status) /\ IntOf(status).n >= ErrorStatusFloor
              THEN Err("RuntimeError", "Lambda error")
            ELSE IF body.t = "str"
              THEN (IF JsonLoads(body).ok THEN Ok(JsonLoads(body).v) ELSE Ok(body))
            ELSE Ok(body)

\* str.strip() of a Python str value
StripStr(s) == IF s.enc \/ IsChars(s) THEN s ELSE Text(Strip(s.v))

\* _get_generator_answer
GetGeneratorAnswer(inv) ==
  LET b == InvokeLambda(inv) IN
    IF ~b.ok THEN b
    ELSE Ok(StripStr(IF b.v.t # "str" THEN JsonDumps(b.v) ELSE b.v))

\* variant: only lists longer than 3 are refused
FoodsCountAtMost(n) == n <= FoodsPerAnswer

\* `if len(foods) != 3` lets the list through
FoodsCountOk(n) == n = FoodsPerAnswer

\* _parse_answer
ParseAnswer(inv) ==
  LET b == InvokeLambda(inv) IN
    IF ~b.ok THEN b
    ELSE LET d == IF b.v.t = "str" THEN JsonLoads(b.v) ELSE [ok |-> TRUE, v |-> b.v] IN
      IF ~d.ok THEN Err("RuntimeError", "Parser returned unexpected text")
      ELSE IF d.v.t # "dict" THEN Err("AttributeError", "no attribute get")
      ELSE LET foods == GetOrNone(d.v.favorite_foods) IN
        IF foods.t # "list" THEN Err("RuntimeError", "Unexpected parser format")
        ELSE IF ~FoodsCountOk(Len(foods.items))
          THEN Err("RuntimeError", "Parser returned wrong number of items")
        ELSE Ok(d.v)

\* DEFAULT_QUESTION, the question of a request that names none
Question == Text("Tell me your three favorite foods.")

\* event = {"body": json.dumps({"question": question})}
GeneratorEvent(question) ==
  [fn |-> "generator", body |-> JsonDumps([t |-> "dict", question |-> question])]

\* variant: the parser is sent the question instead of the generator's text
ParserEventOfQuestion(answer) ==
  [fn |-> "parser", body |-> JsonDumps([t |-> "dict", answer |-> Question])]

\* event = {"body": json.dumps({"answer": answer_text})}
ParserEvent(answer) ==
  [fn |-> "parser", body |-> JsonDumps([t |-> "dict", answer |-> answer])]

\* one call of _invoke_lambda: the event sent, the reply read, the outcome
Invocation(ev, inv) == [call |-> ev, inv |-> inv, out |-> InvokeLambda(inv)]
NoInvocation == [call |-> [fn |-> "none"]]

\* parser replies of 3 entries whose entries are not of the documented shape
BareEntry(name) ==
  [t |-> "dict", name |-> Text(name), possible_ingredients |-> Absent, diet |-> Absent]
NamelessEntry(diet) ==
  [t |-> "dict", name |-> Absent,
   possible_ingredients |-> PyList(<<"rice", "salt", "oil", "onion">>),
   diet |-> Text(diet)]
\* replies whose envelope is not {statusCode: <int>, body: <str>}
OddEnvelopes ==
  {Payload(PyList(<<>>)),
   Payload(Envelope(Text("abc"), JsonDumps(FoodsDict(PyList(GoodFoods))))),
   Payload(Envelope(PyList(<<"500">>), Text("boom"))),
   Payload(Envelope(Chars(<<"5", "0", "0">>), Text("boom"))),
   Payload(Envelope(Chars(<<"2", "0", "0">>), JsonDumps(FoodsDict(PyList(GoodFoods))))),
   Payload(Envelope(PyInt(399), JsonDumps(FoodsDict(PyList(GoodFoods))))),
   Payload(Envelope(PyFloat(399, TRUE), JsonDumps(FoodsDict(PyList(GoodFoods))))),
   Payload(Envelope(PyInt(0), Text("boom"))),
   Payload(Envelope(Absent, Absent)),
   Payload(Envelope(PyInt(200), PyList(GoodFoods)))}

OddParserResponses ==
  OddEnvelopes \cup
  {Payload(Envelope(PyInt(200), JsonDumps(FoodsDict(PyList(
     <<GoodFoods[1], BareEntry("Ramen"), GoodFoods[3]>>))))),
   Payload(Envelope(PyInt(200), JsonDumps(FoodsDict(PyList(
     <<NamelessEntry("vegan"), Entry("  ", "normal"), Entry("Ceviche", "pescatarian")>>)))))}

\* ------------------------------------------------------ orchestrator: rows
\* one tuple appended to pending_rows: (user_id, name, ingredients, diet, now)
Row(uid, name, ingredients, diet, created) ==
  [user_id |-> uid, name |-> name, possible_ingredients |-> ingredients,
   diet |-> diet, created_at |-> created]

\* variant: uuid4() is drawn inside `for f in foods`, one id per dish
RowUserIdPerDish(uid, f) ==
  IF f.t = "dict" /\ f.name = Text(" Paella ") THEN uid + 1000 ELSE uid

\* variant: every invocation uses the same identifier
RowUserIdConstant(uid, f) == 1

\* user_id = str(uuid4()) is drawn once per iteration, before `for f in foods`
RowUserId(uid, f) == uid

\* variant: the clock is read again when a row is built
RowCreatedAtOfRow(started, clk) == clk

\* `now` is read once before the loop and appended to every row
RowCreatedAt(started, clk) == started

\* the body of `for f in foods` for one entry
BuildRow(f, uid, created) ==
  IF f.t # "dict" THEN Err("AttributeError", "no attribute get")
  ELSE LET nameV == IF Truthy(GetOrNone(f.name)) THEN f.name ELSE Text("")
           ingV == IF Truthy(f.possible_ingredients)
                     THEN f.possible_ingredients ELSE PyList(<<>>)
           dietV == IF f.diet.t = "absent" THEN Text("normal") ELSE f.diet
       IN IF nameV.t # "str" THEN Err("AttributeError", "no attribute strip")
          ELSE Ok(Row(RowUserId(uid, f), StripStr(nameV).v, ingV, dietV, created))

\* the rows appended by `for f in foods` until it ends or one entry raises
RECURSIVE BuildRows(_, _, _)
BuildRows(foods, uid, created) ==
  IF foods = <<>> THEN [rows |-> <<>>, exc |-> Exc("none", "")]
  ELSE LET r == BuildRow(Head(foods), uid, created) IN
    IF ~r.ok THEN [rows |-> <<>>, exc |-> r.exc]
    ELSE LET rest == BuildRows(Tail(foods), uid, created)
         IN [rows |-> <<r.v>> \o rest.rows, exc |-> rest.exc]

\* a row written before any run of the model (its user_id is never generated)
OldRow == Row(0, "Ramen", PyList(<<"noodles", "broth", "egg", "pork">>), Text("normal"), 0)
PreExisting == {<<>>, <<OldRow>>}

\* ------------------------------------------------------------------- state
VARIABLES
  event,          \* the request of each orchestrator invocation
  pc,             \* where each invocation stands in handler
  runs,           \* handler: runs
  i,              \* handler: loop variable of `for i in range(runs)`
  pending_rows,   \* handler: pending_rows
  total_inserted, \* handler: total_inserted
  now,            \* handler: now
  answer_text,    \* handler: answer_text of the current iteration
  conn,           \* the invocation's connection: "none", "open", "closed"
  txn,            \* rows inserted on the connection and not yet committed
  store,          \* committed rows of favorite_foods, in insertion order
  resp,           \* the response returned by handler
  responses,      \* number of responses returned
  escaped,        \* an exception left handler
  uuidCtr,        \* next value uuid4() yields
  clock,          \* wall clock read by datetime.now
  genCalls,       \* generator invocations made
  parseCalls,     \* parser invocations made
  connects,       \* connections opened
  inserts,        \* execute_values calls made
  produced,       \* every row appended to pending_rows, in order
  committed,      \* the batches committed, in order
  failedAt,       \* the step of handler that raised, or "none"
  lastFoodsLen,   \* length of favorite_foods in the last parser reply
  invoked,        \* the last _invoke_lambda call: event sent, reply, outcome
  sEvent,         \* report-stats: the request
  sPc,            \* report-stats: where the invocation stands in handler
  rows_n,         \* report-stats handler: rows_n
  strict_veg,     \* report-stats handler: strict_veg
  sConnects,      \* report-stats: connections opened
  sResp,          \* report-stats: the response returned
  sResponses,     \* report-stats: number of responses returned
  sEscaped        \* report-stats: an exception left handler

statsVars == <<sEvent, sPc, rows_n, strict_veg, sConnects, sResp, sResponses, sEscaped>>

orchVars ==
  <<event, pc, runs, i, pending_rows, total_inserted, now, answer_text, conn,
    txn, resp, responses, escaped, uuidCtr, clock, genCalls, parseCalls,
    connects, inserts, produced, committed, failedAt, lastFoodsLen, invoked>>

vars ==
  <<event, pc, runs, i, pending_rows, total_inserted, now, answer_text, conn,
    txn, store, resp, responses, escaped, uuidCtr, clock, genCalls, parseCalls,
    connects, inserts, produced, committed, failedAt, lastFoodsLen, invoked,
    sEvent, sPc, rows_n, strict_veg,
    sConnects, sResp, sResponses, sEscaped>>

NoResponse == [statusCode |-> 0, body |-> [none |-> TRUE]]
Response(status, body) == [statusCode |-> status, body |-> body]

\* variant: `except RuntimeError`
HandlerCatchesRuntimeOnly(type) == type = "RuntimeError"

\* `except Exception` of the orchestrator handler
HandlerCatches(type) == type \in ExceptionTypes

\* handler returns r
Return(p, r) ==
  /\ resp' = [resp EXCEPT ![p] = r]
  /\ responses' = [responses EXCEPT ![p] = @ + 1]
  /\ pc' = [pc EXCEPT ![p] = "done"]

\* a return statement of the try block
Respond(p, r) ==
  /\ Return(p, r)
  /\ UNCHANGED <<escaped, failedAt>>

\* an exception raised inside the try block of handler
Raise(p, exc) ==
  /\ failedAt' = [failedAt EXCEPT ![p] = pc[p]]
  /\ IF HandlerCatches(exc.type)
       THEN Return(p, Response(500, [error |-> exc.msg])) /\ UNCHANGED escaped
       ELSE /\ escaped' = [escaped EXCEPT ![p] = TRUE]
            /\ pc' = [pc EXCEPT ![p] = "done"]
            /\ UNCHANGED <<resp, responses>>

Goto(p, label) ==
  /\ pc' = [pc EXCEPT ![p] = label]
  /\ UNCHANGED <<resp, responses, escaped, failedAt>>

\* "Robust body parsing": the dict the request fields are read from
ParseBody(ev) ==
  IF ev.shape = "not_dict" THEN Ok(EmptyDict)
  ELSE IF ev.shape = "direct" THEN Ok(ev.raw)
  ELSE IF ev.body.t = "str" THEN
    (IF ~Truthy(ev.body) THEN Ok(EmptyDict)
     ELSE IF JsonLoads(ev.body).ok THEN Ok(JsonLoads(ev.body).v)
     ELSE Err("JSONDecodeError", "Expecting value"))
  ELSE IF ev.body.t = "dict" THEN Ok(ev.body)
  ELSE Ok(EmptyDict)

\* runs = int(raw.get("runs") or 0)
ParseRuns(raw) ==
  IF raw.t # "dict" THEN Err("AttributeError", "no attribute get")
  ELSE LET x == IF Truthy(GetOrNone(raw.runs)) THEN raw.runs ELSE PyInt(0)
           r == IntOf(x)
       IN IF r.ok THEN Ok(r.n) ELSE Err(r.exc, "invalid literal for int()")

\* `if runs <= 0`
RunsRejected(n) == n <= 0

\* outcomes of _connect_pg: both secrets read and the connection made, or
\* the step that failed
ConnectOutcomes ==
  {"ok", "conn_arn_unset", "secret_read_failed", "secret_missing_keys",
   "password_arn_unset", "secret_not_json", "connect_refused"}

ConnectPg(o) ==
  CASE o = "ok" -> Ok(None)
    [] o = "conn_arn_unset" -> Err("RuntimeError", "PG_CONN_SECRET_ARN is not set.")
    [] o = "password_arn_unset" -> Err("RuntimeError", "PG_PASSWORD_SECRET_ARN is not set.")
    [] o = "secret_read_failed" -> Err("ClientError", "GetSecretValue failed")
    [] o = "secret_missing_keys" -> Err("RuntimeError", "secret missing keys")
    [] o = "secret_not_json" -> Err("JSONDecodeError", "Expecting value")
    [] o = "connect_refused" -> Err("OperationalError", "could not connect")

\* variants of the flush condition: `i % 10 == 0`, and a flush every iteration
FlushDueOffByOne(k) == k % BatchRuns = 0
FlushDueAlways(k) == TRUE
\* variant: the flush comes one iteration late
FlushDueLate(k) == (k + 1) % (BatchRuns + 1) = 0

\* `if (i + 1) % 10 == 0`
FlushDue(k) == (k + 1) % BatchRuns = 0

\* variant: the connection is in autocommit mode
StoreOnExecuteAutocommit(st, rows) == st \o rows

\* the connection is opened without autocommit: executed rows stay invisible
StoreOnExecute(st, rows) == st

\* conn.commit(): the rows of the open transaction become visible, in order
StoreOnCommit(st, rows) == st \o rows

\* variant: the buffer is not cleared after a periodic flush
ClearedBufferKept(rows) == rows

\* pending_rows.clear() after a periodic flush
ClearedBuffer(rows) == <<>>

\* the favorite_foods list a parser reply carries under its JSON encodings
RECURSIVE Decoded(_)
Decoded(v) == IF v.t = "str" /\ v.enc THEN Decoded(v.v) ELSE v

NoList == 0 - 1

ReplyFoodsLen(inv) ==
  IF inv.kind # "payload" THEN NoList
  ELSE LET env == Decoded(inv.raw) IN
    IF env.t # "dict" THEN NoList
    ELSE LET b == Decoded(env.body) IN
      IF b.t = "dict" /\ b.favorite_foods.t = "list"
        THEN Len(b.favorite_foods.items) ELSE NoList

\* variant: the response counts iterations instead of rows
SuccessBodyCountsRuns(r, total) == [ok |-> TRUE, runs |-> r, inserted_rows |-> r]

\* body of the 200 response
SuccessBody(r, total) == [ok |-> TRUE, runs |-> r, inserted_rows |-> total]

\* body of the 400 response
InvalidRunsBody == [error |-> "Missing or invalid 'runs' (>0)"]

\* ----------------------------------------------------- orchestrator: steps
\* handler, from entry to the check of runs
ParseEvent(p) ==
  /\ pc[p] = "start"
  /\ LET rb == ParseBody(event[p]) IN
       IF ~rb.ok THEN Raise(p, rb.exc) /\ UNCHANGED runs
       ELSE LET rr == ParseRuns(rb.v) IN
         IF ~rr.ok THEN Raise(p, rr.exc) /\ UNCHANGED runs
         ELSE /\ runs' = [runs EXCEPT ![p] = rr.v]
              /\ IF RunsRejected(rr.v)
                   THEN Respond(p, Response(400, InvalidRunsBody))
                   ELSE Goto(p, "connect")
  /\ UNCHANGED <<statsVars, lastFoodsLen, invoked, event, i, pending_rows, total_inserted, now, answer_text, conn,
                 txn, store, uuidCtr, clock, genCalls, parseCalls, connects,
                 inserts, produced, committed>>

\* conn = _connect_pg() and the initialisation before the loop
Connect(p) ==
  /\ pc[p] = "connect"
  /\ \E o \in ConnectOutcomes :
       LET r == ConnectPg(o) IN
         IF r.ok
           THEN /\ conn' = [conn EXCEPT ![p] = "open"]
                /\ connects' = [connects EXCEPT ![p] = @ + 1]
                /\ total_inserted' = [total_inserted EXCEPT ![p] = 0]
                /\ pending_rows' = [pending_rows EXCEPT ![p] = <<>>]
                /\ now' = [now EXCEPT ![p] = clock]
                /\ i' = [i EXCEPT ![p] = 0]
                /\ Goto(p, "gen")
           ELSE /\ Raise(p, r.exc)
                /\ UNCHANGED <<conn, connects, total_inserted, pending_rows, now, i>>
  /\ UNCHANGED <<statsVars, lastFoodsLen, invoked, event, runs, answer_text, txn, store, uuidCtr, clock, genCalls,
                 parseCalls, inserts, produced, committed>>

\* answer_text = _get_generator_answer(question)
GenerateFrom(p, replies) ==
  /\ pc[p] = "gen"
  /\ \E inv \in replies :
       LET r == GetGeneratorAnswer(inv) IN
         /\ invoked' = [invoked EXCEPT ![p] = Invocation(GeneratorEvent(Question), inv)]
         /\ IF r.ok
              THEN /\ answer_text' = [answer_text EXCEPT ![p] = r.v]
                   /\ Goto(p, "parse")
              ELSE /\ Raise(p, r.exc)
                   /\ UNCHANGED answer_text
  /\ genCalls' = [genCalls EXCEPT ![p] = @ + 1]
  /\ clock' = clock + 1
  /\ UNCHANGED <<statsVars, lastFoodsLen, event, runs, i, pending_rows, total_inserted, now, conn, txn,
                 store, uuidCtr, parseCalls, connects, inserts, produced, committed>>

\* the generator answers with one of the replies of GenResponses
Generate(p) == GenerateFrom(p, GenResponses)

\* the loop header after iteration i: next iteration, final flush, or close
AfterIteration(p, pend) ==
  IF i[p] + 1 < runs[p]
    THEN /\ i' = [i EXCEPT ![p] = @ + 1]
         /\ Goto(p, "gen")
    ELSE /\ UNCHANGED i
         /\ Goto(p, IF pend # <<>> THEN "final_exec" ELSE "close")

\* variant: the counter counts iterations
CountBufferedOnce(total, rows) == total + 1

\* total_inserted += 1 for every row appended to pending_rows
CountBuffered(total, rows) == total + Len(rows)

\* parsed = _parse_answer(answer_text); the rows of the iteration are
\* appended; then the periodic flush is due or the loop goes on
ParseAndBufferFrom(p, replies) ==
  /\ pc[p] = "parse"
  /\ \E inv \in replies :
       LET r == ParseAnswer(inv) IN
         /\ lastFoodsLen' = [lastFoodsLen EXCEPT ![p] = ReplyFoodsLen(inv)]
         /\ invoked' = [invoked EXCEPT ![p] = Invocation(ParserEvent(answer_text[p]), inv)]
         /\ IF ~r.ok
           THEN /\ Raise(p, r.exc)
                /\ UNCHANGED <<i, pending_rows, total_inserted, uuidCtr, produced>>
           ELSE LET b == BuildRows(r.v.favorite_foods.items, uuidCtr, RowCreatedAt(now[p], clock))
                    pend == pending_rows[p] \o b.rows
                IN /\ uuidCtr' = uuidCtr + 1
                   /\ pending_rows' = [pending_rows EXCEPT ![p] = pend]
                   /\ total_inserted' = [total_inserted EXCEPT ![p] = CountBuffered(@, b.rows)]
                   /\ produced' = [produced EXCEPT ![p] = @ \o b.rows]
                   /\ IF b.exc.type # "none"
                        THEN Raise(p, b.exc) /\ UNCHANGED i
                      ELSE IF FlushDue(i[p])
                        THEN Goto(p, "flush_exec") /\ UNCHANGED i
                      ELSE AfterIteration(p, pend)
  /\ parseCalls' = [parseCalls EXCEPT ![p] = @ + 1]
  /\ clock' = clock + 1
  /\ UNCHANGED <<statsVars, event, runs, now, answer_text, conn, txn, store, genCalls,
                 connects, inserts, committed>>

\* the parser answers with one of the replies of ParserResponses
ParseAndBuffer(p) == ParseAndBufferFrom(p, ParserResponses)

\* _insert_batch up to execute_values, for the periodic and the final flush
ExecuteValues(p) ==
  /\ pc[p] \in {"flush_exec", "final_exec"}
  /\ IF pending_rows[p] = <<>>
       THEN /\ IF pc[p] = "flush_exec" THEN AfterIteration(p, <<>>)
               ELSE Goto(p, "close") /\ UNCHANGED i
            /\ UNCHANGED <<txn, store, inserts>>
       ELSE /\ inserts' = [inserts EXCEPT ![p] = @ + 1]
            /\ UNCHANGED i
            /\ \E ok \in BOOLEAN :
                 IF ok
                   THEN /\ txn' = [txn EXCEPT ![p] = @ \o pending_rows[p]]
                        /\ store' = StoreOnExecute(store, pending_rows[p])
                        /\ Goto(p, IF pc[p] = "flush_exec" THEN "flush_commit"
                                   ELSE "final_commit")
                   ELSE /\ Raise(p, Exc("OperationalError", "insert rejected"))
                        /\ UNCHANGED <<txn, store>>
  /\ UNCHANGED <<statsVars, lastFoodsLen, invoked, event, runs, pending_rows, total_inserted, now, answer_text,
                 conn, uuidCtr, clock, genCalls, parseCalls, connects, produced,
                 committed>>

\* conn.commit() of _insert_batch; the periodic flush then clears the buffer
Commit(p) ==
  /\ pc[p] \in {"flush_commit", "final_commit"}
  /\ \E ok \in BOOLEAN :
       IF ok
         THEN /\ store' = StoreOnCommit(store, txn[p])
              /\ committed' = [committed EXCEPT ![p] = Append(@, txn[p])]
              /\ txn' = [txn EXCEPT ![p] = <<>>]
              /\ IF pc[p] = "flush_commit"
                   THEN /\ pending_rows' = [pending_rows EXCEPT ![p] = ClearedBuffer(@)]
                        /\ AfterIteration(p, ClearedBuffer(pending_rows[p]))
                   ELSE /\ UNCHANGED <<pending_rows, i>>
                        /\ Goto(p, "close")
         ELSE /\ Raise(p, Exc("OperationalError", "commit failed"))
              /\ UNCHANGED <<store, committed, txn, pending_rows, i>>
  /\ UNCHANGED <<statsVars, lastFoodsLen, invoked, event, runs, total_inserted, now, answer_text, conn, uuidCtr,
                 clock, genCalls, parseCalls, connects, inserts, produced>>

\* conn.close() and the 200 response
Finish(p) ==
  /\ pc[p] = "close"
  /\ conn' = [conn EXCEPT ![p] = "closed"]
  /\ Respond(p, Response(200, SuccessBody(runs[p], total_inserted[p])))
  /\ UNCHANGED <<statsVars, lastFoodsLen, invoked, event, runs, i, pending_rows, total_inserted, now, answer_text,
                 txn, store, uuidCtr, clock, genCalls, parseCalls, connects,
                 inserts, produced, committed>>

\* ------------------------------------------------------------ report-stats
QueryString(rows, strictVeg) == [t |-> "dict", rows |-> rows, strictVeg |-> strictVeg]
StatsEvent(qs) == [shape |-> "dict", qs |-> qs]

\* values of the query parameter "rows"
RowsValues ==
  {Absent, None, Chars(<<>>), Chars(<<"0">>), Chars(<<"-", "3">>),
   Chars(<<"a", "b", "c">>), Chars(<<"2", ".", "5">>), Chars(<<"1">>),
   Chars(<<"2">>), Chars(<<"5">>), Chars(<<"1", "0", "0", "0", "0">>),
   Chars(<<"1", "0", "0", "0", "1">>), Chars(<<"9", "9", "9", "9", "9", "9">>)}

StrictVegValues == {Absent, Text("true"), Text("TRUE"), Text("false")}

StatsEvents ==
  {StatsEvent(QueryString(r, v)) : r \in RowsValues, v \in StrictVegValues}
  \cup {StatsEvent(None), [shape |-> "not_dict"]}

\* qs = (event.get("queryStringParameters") or {}) if isinstance(event, dict) else {}
QueryParams(ev) ==
  IF ev.shape = "dict" /\ Truthy(ev.qs) THEN ev.qs ELSE QueryString(Absent, Absent)

Min(a, b) == IF a <= b THEN a ELSE b

\* _parse_rows
ParseRows(qs) ==
  IF qs.rows.t = "absent" THEN Err("ValueError", "Missing required query parameter 'rows'")
  ELSE IF ~IntOf(qs.rows).ok THEN Err("ValueError", "'rows' must be an integer")
  ELSE IF IntOf(qs.rows).n <= 0 THEN Err("ValueError", "'rows' must be > 0")
  ELSE Ok(Min(IntOf(qs.rows).n, RowsCap))

\* str(...).lower() of the strictVeg values of the model
LowerText(s) == IF s = "TRUE" THEN "true" ELSE s

\* strict_veg = str(qs.get("strictVeg", "false")).lower() == "true"
StrictVeg(qs) ==
  LowerText(IF qs.strictVeg.t = "absent" THEN "false" ELSE qs.strictVeg.v) = "true"

\* the %s placeholders of the query text, and the parameters passed with it
QueryPlaceholders == 1
QueryParameters == 3

\* the column names of the row the query returns, and the keys handler reads
ResultColumns == {"top_3", "vegetarian_users_count"}
ReadTop == "top5_json"
ReadVegCount == "veg_users_count"
ReadUsers == "users_json"

\* ORDER BY created_at DESC, favorite_food_id DESC LIMIT n, as positions of st
Newer(st, a, b) ==
  \/ st[a].created_at > st[b].created_at
  \/ st[a].created_at = st[b].created_at /\ a > b

Slice(st, n) ==
  IF n >= Len(st) THEN 1..Len(st)
  ELSE CHOOSE S \in SUBSET (1..Len(st)) :
         /\ Cardinality(S) = n
         /\ \A a \in S, b \in (1..Len(st)) \ S : Newer(st, a, b)

\* LOWER(TRIM(name)) on the names of the model
NormName(s) ==
  CASE s = "Biryani" -> "biryani" [] s = "BIRYANI" -> "biryani"
    [] s = "Paella" -> "paella" [] s = " Paella " -> "paella"
    [] s = "Falafel" -> "falafel" [] s = "Ramen" -> "ramen"
    [] OTHER -> s

\* the names of the model in ascending order of the column's collation
NameOrder ==
  <<"", " Paella ", "BIRYANI", "Biryani", "Falafel", "Paella", "Ramen">>
NameRank(s) == CHOOSE k \in 1..Len(NameOrder) : NameOrder[k] = s

\* GROUP BY norm_name: MIN(name) and COUNT(*) of each group of the slice
Groups(st, S) ==
  {[name |-> NameOrder[CHOOSE k \in {NameRank(st[a].name) : a \in G} :
                         \A a \in G : k <= NameRank(st[a].name)],
    count |-> Cardinality(G)] :
     G \in {{a \in S : NormName(st[a].name) = nn} : nn \in {NormName(st[b].name) : b \in S}}}

\* ORDER BY count DESC, name ASC
Before(g, h) ==
  g.count > h.count \/ (g.count = h.count /\ NameRank(g.name) < NameRank(h.name))

RECURSIVE TopN(_, _)
TopN(gs, n) ==
  IF n = 0 \/ gs = {} THEN <<>>
  ELSE LET g == CHOOSE x \in gs : \A y \in gs \ {x} : Before(x, y)
       IN <<g>> \o TopN(gs \ {g}, n - 1)

TopLimit == 3

\* SELECT COUNT(DISTINCT user_id) FROM b WHERE diet IN ('vegetarian','vegan')
VegUsers(st, S) ==
  Cardinality({st[a].user_id : a \in {b \in S : st[b].diet \in {Text("vegetarian"), Text("vegan")}}})

\* cur.execute(query, (rows_n, strict_veg, strict_veg)); cur.fetchone()
RunQuery(st, n, dbOk) ==
  IF QueryParameters # QueryPlaceholders
    THEN Err("TypeError", "not all arguments converted during string formatting")
  ELSE IF ~dbOk THEN Err("OperationalError", "query failed")
  ELSE Ok([top_3 |-> TopN(Groups(st, Slice(st, n)), TopLimit),
           vegetarian_users_count |-> VegUsers(st, Slice(st, n))])

\* res[key] on the RealDictCursor row
Column(res, key) ==
  IF key \in ResultColumns THEN Ok(res[key]) ELSE Err("KeyError", key)

\* the except clauses of the report-stats handler
StatsStatusFor(type) ==
  IF type \in ValueErrorTypes THEN 400
  ELSE IF type \in ExceptionTypes THEN 500
  ELSE 0

StatsRespond(r) ==
  /\ sResp' = r
  /\ sResponses' = sResponses + 1
  /\ sPc' = "s_done"
  /\ UNCHANGED sEscaped

StatsRaise(exc) ==
  IF StatsStatusFor(exc.type) # 0
    THEN StatsRespond(Response(StatsStatusFor(exc.type), [error |-> exc.msg]))
    ELSE /\ sEscaped' = TRUE
         /\ sPc' = "s_done"
         /\ UNCHANGED <<sResp, sResponses>>

\* handler, from entry to strict_veg
StatsParse ==
  /\ sPc = "s_start"
  /\ LET r == ParseRows(QueryParams(sEvent)) IN
       IF ~r.ok THEN StatsRaise(r.exc) /\ UNCHANGED <<rows_n, strict_veg>>
       ELSE /\ rows_n' = r.v
            /\ strict_veg' = StrictVeg(QueryParams(sEvent))
            /\ sPc' = "s_connect"
            /\ UNCHANGED <<sResp, sResponses, sEscaped>>
  /\ UNCHANGED <<orchVars, store, sEvent, sConnects>>

\* conn = _connect_pg()
StatsConnect ==
  /\ sPc = "s_connect"
  /\ \E o \in ConnectOutcomes :
       LET r == ConnectPg(o) IN
         IF r.ok
           THEN /\ sConnects' = sConnects + 1
                /\ sPc' = "s_query"
                /\ UNCHANGED <<sResp, sResponses, sEscaped>>
           ELSE StatsRaise(r.exc) /\ UNCHANGED sConnects
  /\ UNCHANGED <<orchVars, store, sEvent, rows_n, strict_veg>>

\* the query, conn.close(), the reads of the result row and the 200 response
StatsQuery ==
  /\ sPc = "s_query"
  /\ \E dbOk \in BOOLEAN :
       LET q == RunQuery(store, rows_n, dbOk) IN
         IF ~q.ok THEN StatsRaise(q.exc)
         ELSE LET top == Column(q.v, ReadTop)
                  veg == Column(q.v, ReadVegCount)
                  users == Column(q.v, ReadUsers)
              IN IF ~top.ok THEN StatsRaise(top.exc)
                 ELSE IF ~veg.ok THEN StatsRaise(veg.exc)
                 ELSE IF ~users.ok THEN StatsRaise(users.exc)
                 ELSE StatsRespond(Response(200,
                        [rows_input |-> rows_n, top_5 |-> top.v,
                         veg_users_count |-> veg.v, veg_users |-> users.v]))
  /\ UNCHANGED <<orchVars, store, sEvent, rows_n, strict_veg, sConnects>>

\* --------------------------------------------------------- specification
\* one orchestrator invocation (process 1) on a store that may hold old rows
Init ==
  /\ event \in [Procs -> Events]
  /\ event[2] = NotDictEvent
  /\ pc = [p \in Procs |-> IF p = 1 THEN "start" ELSE "idle"]
  /\ runs = [p \in Procs |-> 0]
  /\ i = [p \in Procs |-> 0]
  /\ pending_rows = [p \in Procs |-> <<>>]
  /\ total_inserted = [p \in Procs |-> 0]
  /\ now = [p \in Procs |-> 0]
  /\ answer_text = [p \in Procs |-> Text("")]
  /\ conn = [p \in Procs |-> "none"]
  /\ txn = [p \in Procs |-> <<>>]
  /\ store \in PreExisting
  /\ resp = [p \in Procs |-> NoResponse]
  /\ responses = [p \in Procs |-> 0]
  /\ escaped = [p \in Procs |-> FALSE]
  /\ uuidCtr = 1
  /\ clock = 1
  /\ genCalls = [p \in Procs |-> 0]
  /\ parseCalls = [p \in Procs |-> 0]
  /\ connects = [p \in Procs |-> 0]
  /\ inserts = [p \in Procs |-> 0]
  /\ produced = [p \in Procs |-> <<>>]
  /\ committed = [p \in Procs |-> <<>>]
  /\ failedAt = [p \in Procs |-> "none"]
  /\ lastFoodsLen = [p \in Procs |-> NoList]
  /\ invoked = [p \in Procs |-> NoInvocation]
  /\ sEvent = [shape |-> "not_dict"]
  /\ sPc = "s_idle"
  /\ rows_n = 0
  /\ strict_veg = FALSE
  /\ sConnects = 0
  /\ sResp = NoResponse
  /\ sResponses = 0
  /\ sEscaped = FALSE

Next ==
  \/ \E p \in Procs : ParseEvent(p)
  \/ \E p \in Procs : Connect(p)
  \/ \E p \in Procs : Generate(p)
  \/ \E p \in Procs : ParseAndBuffer(p)
  \/ \E p \in Procs : ExecuteValues(p)
  \/ \E p \in Procs : Commit(p)
  \/ \E p \in Procs : Finish(p)

Spec == Init /\ [][Next]_vars

\* one report-stats invocation on a store some runs have filled
StatsStores ==
  {<<>>,
   <<OldRow>>,
   <<Row(1, "Biryani", PyList(<<"rice">>), Text("normal"), 1),
     Row(1, "Paella", PyList(<<"rice">>), Text("normal"), 1),
     Row(1, "Falafel", PyList(<<"chickpea">>), Text("vegan"), 1),
     Row(2, "BIRYANI", PyList(<<"rice">>), Text("vegetarian"), 2),
     Row(2, " Paella ", PyList(<<"rice">>), Text("normal"), 2),
     Row(2, "Biryani", PyList(<<"rice">>), Text("normal"), 2)>>}

InitStats ==
  /\ event = [p \in Procs |-> NotDictEvent]
  /\ pc = [p \in Procs |-> "idle"]
  /\ runs = [p \in Procs |-> 0]
  /\ i = [p \in Procs |-> 0]
  /\ pending_rows = [p \in Procs |-> <<>>]
  /\ total_inserted = [p \in Procs |-> 0]
  /\ now = [p \in Procs |-> 0]
  /\ answer_text = [p \in Procs |-> Text("")]
  /\ conn = [p \in Procs |-> "none"]
  /\ txn = [p \in Procs |-> <<>>]
  /\ store \in StatsStores
  /\ resp = [p \in Procs |-> NoResponse]
  /\ responses = [p \in Procs |-> 0]
  /\ escaped = [p \in Procs |-> FALSE]
  /\ uuidCtr = 1
  /\ clock = 1
  /\ genCalls = [p \in Procs |-> 0]
  /\ parseCalls = [p \in Procs |-> 0]
  /\ connects = [p \in Procs |-> 0]
  /\ inserts = [p \in Procs |-> 0]
  /\ produced = [p \in Procs |-> <<>>]
  /\ committed = [p \in Procs |-> <<>>]
  /\ failedAt = [p \in Procs |-> "none"]
  /\ lastFoodsLen = [p \in Procs |-> NoList]
  /\ invoked = [p \in Procs |-> NoInvocation]
  /\ sEvent \in StatsEvents
  /\ sPc = "s_start"
  /\ rows_n = 0
  /\ strict_veg = FALSE
  /\ sConnects = 0
  /\ sResp = NoResponse
  /\ sResponses = 0
  /\ sEscaped = FALSE

NextStats ==
  \/ StatsParse
  \/ StatsConnect
  \/ StatsQuery

SpecStats == InitStats /\ [][NextStats]_vars

\* one orchestrator invocation of a few iterations whose parser may also
\* answer with entries that are not of the documented shape
MaxFormatRuns == 2

InitFormat ==
  /\ Init
  /\ \E n \in 1..MaxFormatRuns : event[1] = DirectEvent(PyInt(n))

NextFormat ==
  \/ \E p \in Procs : ParseEvent(p)
  \/ \E p \in Procs : Connect(p)
  \/ \E p \in Procs : Generate(p)
  \/ \E p \in Procs : ParseAndBufferFrom(p, ParserResponses \cup OddParserResponses)
  \/ \E p \in Procs : ExecuteValues(p)
  \/ \E p \in Procs : Commit(p)
  \/ \E p \in Procs : Finish(p)

SpecFormat == InitFormat /\ [][NextFormat]_vars

\* two orchestrator invocations running at the same time on one store, each
\* with its own connection and its own locals
MaxConcRuns == 2

InitConc ==
  /\ event \in [Procs -> {DirectEvent(PyInt(n)) : n \in 1..MaxConcRuns}]
  /\ pc = [p \in Procs |-> "start"]
  /\ runs = [p \in Procs |-> 0]
  /\ i = [p \in Procs |-> 0]
  /\ pending_rows = [p \in Procs |-> <<>>]
  /\ total_inserted = [p \in Procs |-> 0]
  /\ now = [p \in Procs |-> 0]
  /\ answer_text = [p \in Procs |-> Text("")]
  /\ conn = [p \in Procs |-> "none"]
  /\ txn = [p \in Procs |-> <<>>]
  /\ store \in PreExisting
  /\ resp = [p \in Procs |-> NoResponse]
  /\ responses = [p \in Procs |-> 0]
  /\ escaped = [p \in Procs |-> FALSE]
  /\ uuidCtr = 1
  /\ clock = 1
  /\ genCalls = [p \in Procs |-> 0]
  /\ parseCalls = [p \in Procs |-> 0]
  /\ connects = [p \in Procs |-> 0]
  /\ inserts = [p \in Procs |-> 0]
  /\ produced = [p \in Procs |-> <<>>]
  /\ committed = [p \in Procs |-> <<>>]
  /\ failedAt = [p \in Procs |-> "none"]
  /\ lastFoodsLen = [p \in Procs |-> NoList]
  /\ invoked = [p \in Procs |-> NoInvocation]
  /\ sEvent = [shape |-> "not_dict"]
  /\ sPc = "s_idle"
  /\ rows_n = 0
  /\ strict_veg = FALSE
  /\ sConnects = 0
  /\ sResp = NoResponse
  /\ sResponses = 0
  /\ sEscaped = FALSE

\* the replies of the collaborators in the concurrent runs: one that fails
\* and one that is well formed, for each collaborator
ConcGenResponses ==
  {InvokeFailed, Payload(Envelope(PyInt(200), Text("Biryani; Paella; Moussaka")))}
ConcParserResponses ==
  {Payload(Envelope(PyInt(500), Text("boom"))),
   Payload(Envelope(PyInt(200), JsonDumps(FoodsDict(PyList(GoodFoods)))))}

NextConc ==
  \/ \E p \in Procs : ParseEvent(p)
  \/ \E p \in Procs : Connect(p)
  \/ \E p \in Procs : GenerateFrom(p, ConcGenResponses)
  \/ \E p \in Procs : ParseAndBufferFrom(p, ConcParserResponses)
  \/ \E p \in Procs : ExecuteValues(p)
  \/ \E p \in Procs : Commit(p)
  \/ \E p \in Procs : Finish(p)

SpecConc == InitConc /\ [][NextConc]_vars

\* ------------------------------------------------------------- properties
RECURSIVE Flatten(_)
Flatten(batches) ==
  IF batches = <<>> THEN <<>> ELSE Head(batches) \o Flatten(Tail(batches))

\* the rows of the store that run p produced, in store order
RunIds(p) == {produced[p][k].user_id : k \in 1..Len(produced[p])}
RunRows(p) == SelectSeq(store, LAMBDA r : r.user_id \in RunIds(p))
OldRows == SelectSeq(store, LAMBDA r : r.user_id = 0)

Ceil(r) == (r + BatchRuns - 1) \div BatchRuns
FullBatch == FoodsPerAnswer * BatchRuns

\* run p has returned without any step raising
Completed(p) == pc[p] = "done" /\ failedAt[p] = "none" /\ runs[p] > 0

\* the value of "runs" the caller sent, where the request is a JSON object
SentRuns(ev) ==
  IF ev.shape = "direct" THEN ev.raw.runs
  ELSE IF ev.shape = "body" /\ Decoded(ev.body).t = "dict" THEN Decoded(ev.body).runs
  ELSE Absent

HasRunsField(ev) ==
  \/ ev.shape \in {"direct", "not_dict"}
  \/ ev.shape = "body" /\ (Decoded(ev.body).t \in {"dict", "none"} \/ ev.body = Text(""))

\* runs is 0, negative, missing or non-numeric
InvalidRuns(rv) ==
  \/ rv.t \in {"absent", "none", "list"}
  \/ rv.t = "int" /\ rv.n <= 0
  \/ rv.t = "float" /\ rv.whole <= 0
  \/ rv.t = "str" /\ (~IsChars(rv) \/ ~IntOfChars(rv.cs).ok \/ IntOfChars(rv.cs).n <= 0)

\* the iteration count a valid request asks for
RequestedCount(rv) ==
  CASE rv.t = "int" -> rv.n
    [] rv.t = "float" -> rv.whole
    [] rv.t = "str" -> IntOfChars(rv.cs).n

\* C1: a run with runs = r > 0 in which nothing fails answers 200 with
\* inserted_rows = 3*r, the store gains exactly its 3*r rows, and exactly
\* ceil(r/10) bulk inserts and ceil(r/10) commits are performed.
C1_InsertedRows ==
  \A p \in Procs :
    Completed(p) =>
      /\ resp[p].statusCode = 200
      /\ resp[p].body.inserted_rows = FoodsPerAnswer * runs[p]
      /\ Len(RunRows(p)) = FoodsPerAnswer * runs[p]
      /\ Len(store) = Len(OldRows) + Len(Flatten(committed[1])) + Len(Flatten(committed[2]))
      /\ inserts[p] = Ceil(runs[p])
      /\ Len(committed[p]) = Ceil(runs[p])

C1_Witness ==
  \E p \in Procs :
    /\ Completed(p)
    /\ runs[p] > 2 * BatchRuns
    /\ runs[p] % BatchRuns # 0
    /\ Len(RunRows(p)) = FoodsPerAnswer * runs[p]

\* C2: batch j of a run is committed right after iteration 10*j, before
\* the next iteration starts, and holds exactly the 30 rows of iterations
\* 10*(j-1)+1 .. 10*j; the final flush commits the 3*(r mod 10) remaining rows
\* iff r mod 10 # 0; no batch is empty, every row is committed once and the
\* store holds the run's rows in the order they were produced.
C2_FlushSchedule ==
  \A p \in Procs :
    LET c == committed[p]
        pr == produced[p]
    IN /\ \A j \in 1..Len(c) :
            /\ c[j] # <<>>
            /\ c[j] = SubSeq(pr, FullBatch * (j - 1) + 1,
                             Min(FullBatch * j, FoodsPerAnswer * runs[p]))
       /\ RunRows(p) = Flatten(c)
       /\ pc[p] \in {"gen", "parse"} => Len(c) = i[p] \div BatchRuns
       /\ pc[p] \in {"flush_exec", "flush_commit"} =>
            /\ (i[p] + 1) % BatchRuns = 0
            /\ Len(c) = ((i[p] + 1) \div BatchRuns) - 1
            /\ pending_rows[p] = SubSeq(pr, Len(pr) - FullBatch + 1, Len(pr))
       /\ pc[p] \in {"final_exec", "final_commit"} =>
            /\ runs[p] % BatchRuns # 0
            /\ Len(c) = runs[p] \div BatchRuns
            /\ Len(pending_rows[p]) = FoodsPerAnswer * (runs[p] % BatchRuns)
       /\ Completed(p) =>
            /\ Len(c) = Ceil(runs[p])
            /\ Flatten(c) = pr
            /\ Len(pr) = FoodsPerAnswer * runs[p]
            /\ runs[p] % BatchRuns # 0 =>
                 Len(c[Len(c)]) = FoodsPerAnswer * (runs[p] % BatchRuns)

C2_Witness ==
  \E p \in Procs :
    /\ Completed(p)
    /\ Len(committed[p]) = 3
    /\ Len(committed[p][1]) = 30
    /\ Len(committed[p][2]) = 30
    /\ Len(committed[p][3]) = 15

\* C3: a request whose runs is 0, negative, missing or non-numeric is
\* answered 400 with an error field, without any generator call, parser call,
\* store connection or row written.
C3_InvalidRunsRejected ==
  \A p \in Procs :
    (pc[p] = "done" /\ HasRunsField(event[p]) /\ InvalidRuns(SentRuns(event[p]))) =>
      /\ resp[p].statusCode = 400
      /\ "error" \in DOMAIN resp[p].body
      /\ genCalls[p] = 0
      /\ parseCalls[p] = 0
      /\ connects[p] = 0
      /\ inserts[p] = 0
      /\ produced[p] = <<>>
      /\ store = OldRows

\* C4: when the parser reply of iteration k carries a favorite_foods list
\* whose length is not 3, the step answers 500 and ends the run: no row of
\* iteration k is buffered or written, the committed batches stay in the
\* store, and a run that has ended makes no further generator or parser call.
C4_WrongCountAborts ==
  [][\A p \in Procs :
       /\ (pc[p] = "parse" /\ pc'[p] # "parse"
             /\ lastFoodsLen'[p] \notin {FoodsPerAnswer, NoList}) =>
            /\ pc'[p] = "done"
            /\ resp'[p].statusCode = 500
            /\ "error" \in DOMAIN resp'[p].body
            /\ pending_rows'[p] = pending_rows[p]
            /\ produced'[p] = produced[p]
            /\ total_inserted'[p] = total_inserted[p]
            /\ txn'[p] = txn[p]
            /\ store' = store
            /\ committed'[p] = committed[p]
            /\ RunRows(p) = Flatten(committed[p])
       /\ pc[p] = "done" =>
            /\ pc'[p] = "done"
            /\ genCalls'[p] = genCalls[p]
            /\ parseCalls'[p] = parseCalls[p]
            /\ produced'[p] = produced[p]
            /\ committed'[p] = committed[p]]_vars

C4_Witness ==
  \E p \in Procs :
    /\ pc[p] = "done"
    /\ failedAt[p] = "parse"
    /\ lastFoodsLen[p] \in {2, 4}
    /\ committed[p] # <<>>
    /\ pending_rows[p] # <<>>
    /\ i[p] + 1 < runs[p]

\* C5: when the generator or the parser step of iteration k fails, the run
\* answers 500 with an error and no ok field, and the store holds exactly the
\* rows of the batches flushed before: the first 30*floor((k-1)/10) rows the
\* run produced; the rows buffered since the last flush are not in the store.
C5_FailedIterationKeepsFlushed ==
  \A p \in Procs :
    (pc[p] = "done" /\ failedAt[p] \in {"gen", "parse"}) =>
      /\ resp[p].statusCode = 500
      /\ DOMAIN resp[p].body = {"error"}
      /\ ~escaped[p]
      /\ Len(RunRows(p)) = FullBatch * (i[p] \div BatchRuns)
      /\ RunRows(p) = SubSeq(produced[p], 1, FullBatch * (i[p] \div BatchRuns))
      /\ Len(committed[p]) = i[p] \div BatchRuns
      /\ \A k \in 1..Len(pending_rows[p]) :
           \A j \in 1..Len(store) : store[j] # pending_rows[p][k]
      /\ txn[p] = <<>>

C5_Witness ==
  \E p \in Procs :
    /\ pc[p] = "done"
    /\ failedAt[p] = "gen"
    /\ i[p] > BatchRuns
    /\ pending_rows[p] # <<>>
    /\ Len(RunRows(p)) = FullBatch

\* C6: when the store rejects the bulk insert or the commit of a batch, the
\* run answers 500, no row of that batch is in the store, and the store still
\* holds exactly the batches committed by the earlier flushes of the run.
C6_FlushAtomic ==
  \A p \in Procs :
    (pc[p] = "done"
       /\ failedAt[p] \in {"flush_exec", "flush_commit", "final_exec", "final_commit"}) =>
      /\ resp[p].statusCode = 500
      /\ "error" \in DOMAIN resp[p].body
      /\ pending_rows[p] # <<>>
      /\ \A k \in 1..Len(pending_rows[p]) :
           \A j \in 1..Len(store) : store[j] # pending_rows[p][k]
      /\ RunRows(p) = Flatten(committed[p])
      /\ RunRows(p) = SubSeq(produced[p], 1, FullBatch * Len(committed[p]))
      /\ Len(store) = Len(OldRows) + Len(Flatten(committed[1])) + Len(Flatten(committed[2]))

C6_Witness ==
  \E p \in Procs :
    /\ pc[p] = "done"
    /\ failedAt[p] = "flush_commit"
    /\ Len(committed[p]) = 1
    /\ Len(RunRows(p)) = FullBatch
    /\ Len(pending_rows[p]) = FullBatch

\* C7 as stated: all the rows a run has persisted carry one and the same
\* grouping identifier.
C7_OneIdPerRun ==
  \A p \in Procs :
    \A a, b \in 1..Len(RunRows(p)) : RunRows(p)[a].user_id = RunRows(p)[b].user_id

\* C7 amended: the identifier is drawn once per iteration: the 3 rows of one
\* iteration share their user_id, and rows of different iterations of the run
\* carry different user_ids.
C7_OneIdPerIteration ==
  \A p \in Procs :
    LET rr == Flatten(committed[p]) IN
      /\ RunRows(p) = rr
      /\ \A a, b \in 1..Len(rr) :
           (rr[a].user_id = rr[b].user_id)
             <=> ((a - 1) \div FoodsPerAnswer = (b - 1) \div FoodsPerAnswer)

C7_Witness ==
  \E p \in Procs :
    /\ Completed(p)
    /\ Len(committed[p]) >= 2
    /\ Cardinality({RunRows(p)[a].user_id : a \in 1..Len(RunRows(p))}) = runs[p]

\* C8 as stated: the 200 response holds ok = true, runs, inserted_rows and the
\* run's run_id.
C8_SuccessBodyWithRunId ==
  \A p \in Procs :
    resp[p].statusCode = 200 =>
      /\ resp[p].body.ok = TRUE
      /\ resp[p].body.runs = RequestedCount(SentRuns(event[p]))
      /\ resp[p].body.inserted_rows = Len(RunRows(p))
      /\ "run_id" \in DOMAIN resp[p].body

\* C8 amended: the 200 response holds exactly ok = true, runs equal to the
\* requested iteration count and inserted_rows equal to the number of rows
\* the run wrote; it carries no run_id.
C8_SuccessBody ==
  \A p \in Procs :
    resp[p].statusCode = 200 =>
      /\ pc[p] = "done"
      /\ DOMAIN resp[p].body = {"ok", "runs", "inserted_rows"}
      /\ resp[p].body.ok = TRUE
      /\ resp[p].body.runs = RequestedCount(SentRuns(event[p]))
      /\ resp[p].body.inserted_rows = Len(RunRows(p))
      /\ resp[p].body.inserted_rows = Len(Flatten(committed[p]))

C8_Witness ==
  \E p \in Procs :
    /\ resp[p].statusCode = 200
    /\ resp[p].body.runs > BatchRuns
    /\ resp[p].body.inserted_rows = Len(RunRows(p))
    /\ "run_id" \notin DOMAIN resp[p].body

\* C9: an invocation returns at most once, and once it has ended it has
\* returned exactly one response with status 200, 400 or 500; a failure of
\* credential resolution, of a generator or parser call, of the shape check or
\* of the store yields 500 with an error field; no exception leaves handler.
C9_OneResponse ==
  \A p \in Procs :
    /\ ~escaped[p]
    /\ responses[p] <= 1
    /\ pc[p] = "done" <=> responses[p] = 1
    /\ pc[p] = "done" => resp[p].statusCode \in {200, 400, 500}
    /\ pc[p] # "done" => resp[p] = NoResponse
    /\ failedAt[p] # "none" =>
         /\ pc[p] = "done"
         /\ resp[p].statusCode = 500
         /\ DOMAIN resp[p].body = {"error"}
    /\ resp[p].statusCode = 400 => connects[p] = 0
    /\ resp[p].statusCode = 200 => failedAt[p] = "none"

C9_Witness ==
  \E p \in Procs :
    /\ pc[p] = "done"
    /\ failedAt[p] = "connect"
    /\ responses[p] = 1
    /\ resp[p].statusCode = 500

\* the value of "rows" the caller sent
SentRows(ev) ==
  IF ev.shape = "dict" /\ ev.qs.t = "dict" THEN ev.qs.rows ELSE Absent

\* rows is missing, not an integer, 0 or negative
InvalidRows(rv) ==
  \/ rv.t \in {"absent", "none"}
  \/ rv.t = "str" /\ (~IntOfChars(rv.cs).ok \/ IntOfChars(rv.cs).n <= 0)

RowsAboveCap(rv) == rv.t = "str" /\ IntOfChars(rv.cs).ok /\ IntOfChars(rv.cs).n > RowsCap

\* C10: report-stats answers 400 to a rows that is missing, not an integer,
\* 0 or negative, without opening a connection; a rows above 10000 is clamped
\* to 10000 and, the store being reachable, the request gets no error response.
C10_RowsValidation ==
  sPc = "s_done" =>
    /\ InvalidRows(SentRows(sEvent)) => sResp.statusCode = 400 /\ sConnects = 0
    /\ (RowsAboveCap(SentRows(sEvent)) /\ sConnects = 1) =>
         /\ rows_n = RowsCap
         /\ \/ sResp.statusCode = 200
            \/ sResp.statusCode = 500 /\ sResp.body.error = "query failed"

\* rows is a positive integer
ValidRows(rv) == rv.t = "str" /\ IntOfChars(rv.cs).ok /\ IntOfChars(rv.cs).n > 0

\* the request met a store that accepted the connection and did not reject the query
StoreReachable == sConnects = 1 /\ sResp.body # [error |-> "query failed"]

\* C11: a report-stats request with a valid rows and a reachable store is
\* answered 200 with a body holding rows_input, top_5 and veg_users_count.
C11_StatsSuccess ==
  (sPc = "s_done" /\ ValidRows(SentRows(sEvent)) /\ StoreReachable) =>
    /\ sResp.statusCode = 200
    /\ {"rows_input", "top_5", "veg_users_count"} \subseteq DOMAIN sResp.body
    /\ sResp.body.rows_input = Min(IntOfChars(SentRows(sEvent).cs).n, RowsCap)

\* the positions of the n most recent records: created_at descending, ties
\* broken by record identifier descending
MostRecent(st, n) ==
  {a \in 1..Len(st) :
     Cardinality({b \in 1..Len(st) :
                    \/ st[b].created_at > st[a].created_at
                    \/ st[b].created_at = st[a].created_at /\ b > a}) < n}

\* C12: the statistics returned are those of exactly the min(rows, number of
\* stored records) most recent records, so they are a function of the store
\* contents and of rows alone.
C12_StatsOverMostRecent ==
  (sPc = "s_done" /\ ValidRows(SentRows(sEvent)) /\ StoreReachable) =>
    LET n == Min(IntOfChars(SentRows(sEvent).cs).n, Len(store))
        S == MostRecent(store, n)
    IN /\ Cardinality(S) = n
       /\ "top_5" \in DOMAIN sResp.body
       /\ "veg_users_count" \in DOMAIN sResp.body
       /\ sResp.body.top_5 = TopN(Groups(store, S), TopLimit)
       /\ sResp.body.veg_users_count = VegUsers(store, S)

\* the diet values of the parser's schema
DietEnum == {Text("vegetarian"), Text("vegan"), Text("normal")}

\* entry f has name, possible_ingredients and a diet of the enum
WellFormedEntry(f) ==
  /\ f.t = "dict"
  /\ f.name.t = "str" /\ f.possible_ingredients.t = "list" /\ f.diet \in DietEnum

\* the favorite_foods entries of the last parser reply, or none
ReplyEntries(inv) ==
  IF ReplyFoodsLen(inv) = NoList THEN <<>>
  ELSE Decoded(Decoded(inv.raw).body).favorite_foods.items

\* C13: every row a run persists has a non-empty trimmed name and a diet of
\* the enum, and a parser reply of 3 entries one of which lacks name,
\* possible_ingredients or diet, or has a diet outside the enum, aborts the
\* run at the parse step with no row of that iteration buffered.
C13_EntriesValidated ==
  \A p \in Procs :
    /\ \A k \in 1..Len(RunRows(p)) :
         RunRows(p)[k].name # "" /\ RunRows(p)[k].diet \in DietEnum
    /\ (/\ invoked[p].call.fn = "parser"
        /\ \E k \in 1..Len(ReplyEntries(invoked[p].inv)) :
             ~WellFormedEntry(ReplyEntries(invoked[p].inv)[k]))
         => /\ pc[p] = "done" /\ failedAt[p] = "parse"
            /\ \A k \in 1..Len(produced[p]) : produced[p][k].user_id # uuidCtr - 1

EnvelopeOf(inv) == Decoded(inv.raw)
StatusOf(inv) == GetOrNone(EnvelopeOf(inv).statusCode)
BodyOf(inv) == GetOrNone(EnvelopeOf(inv).body)

\* the reply could not be read or decoded
Undecodable(inv) == inv.kind = "client_error" \/ ~inv.raw.enc

\* the status is a number of at least 400
StatusIsError(st) ==
  \/ st.t = "int" /\ st.n >= 400
  \/ st.t = "float" /\ st.whole >= 400
  \/ st.t = "str" /\ IsChars(st) /\ IntOfChars(st.cs).ok /\ IntOfChars(st.cs).n >= 400

\* the value the client returns for body b
ReturnedBody(b) == IF b.t = "str" /\ b.enc THEN b.v ELSE b

WellFormedEnvelope(inv) ==
  /\ ~Undecodable(inv)
  /\ EnvelopeOf(inv).t = "dict"
  /\ Truthy(StatusOf(inv)) =>
       \/ StatusOf(inv).t \in {"int", "float"}
       \/ StatusOf(inv).t = "str" /\ IsChars(StatusOf(inv)) /\ IntOfChars(StatusOf(inv).cs).ok

C16_OneTimestampPerRun ==
  \A p \in Procs :
    /\ genCalls[p] > 0 => now[p] < clock
    /\ \A k \in 1..Len(produced[p]) : produced[p][k].created_at = now[p]
    /\ \A k \in 1..Len(store) :
         store[k].user_id \in RunIds(p) => store[k].created_at = now[p]
    /\ \A b \in 1..Len(committed[p]) :
         \A k \in 1..Len(committed[p][b]) : committed[p][b][k].created_at = now[p]

C16_Witness ==
  /\ Completed(1) /\ runs[1] = BatchRuns + 1
  /\ Len(committed[1]) = 2 /\ Len(RunRows(1)) = FoodsPerAnswer * (BatchRuns + 1)
  /\ clock > now[1] + 2 * BatchRuns
  /\ RunRows(1)[1].created_at = RunRows(1)[Len(RunRows(1))].created_at

OwnRows(p, rows) == \A k \in 1..Len(rows) : rows[k].user_id \in RunIds(p)

\* the number of rows of the store that run p produced
StoredBy(p) == Cardinality({k \in 1..Len(store) : store[k].user_id \in RunIds(p)})

C19_BufferBounded ==
  \A p \in Procs :
    /\ Len(pending_rows[p]) <= FullBatch
    /\ pc[p] = "gen" => Len(pending_rows[p]) = FoodsPerAnswer * (i[p] % BatchRuns)
    /\ pc[p] = "final_exec" => Len(pending_rows[p]) = FoodsPerAnswer * (runs[p] % BatchRuns)
    /\ pc[p] = "flush_exec" => Len(pending_rows[p]) = FullBatch
    /\ (pc[p] \in {"gen", "close"} /\ i[p] > 0 /\ Len(committed[p]) * BatchRuns = i[p] + 1)
         => pending_rows[p] = <<>>
    /\ (pc[p] = "gen" /\ Len(committed[p]) * BatchRuns = i[p]) => pending_rows[p] = <<>>

C19_Witness ==
  /\ pc[1] = "gen" /\ i[1] = 2 * BatchRuns
  /\ Len(committed[1]) = 2 /\ pending_rows[1] = <<>>
  /\ Len(produced[1]) = 2 * FullBatch

\* C20: the counter is incremented when a row is buffered, before it is
\* committed; at every iteration boundary it equals the rows this run has
\* committed plus the rows in its buffer, which is 3 * completed iterations;
\* so a 200 response reports exactly the number of rows the run committed.
C20_CounterMatchesCommitted ==
  \A p \in Procs :
    /\ total_inserted[p] = Len(produced[p])
    /\ pc[p] = "gen" =>
         /\ total_inserted[p] = Len(Flatten(committed[p])) + Len(pending_rows[p])
         /\ total_inserted[p] = FoodsPerAnswer * i[p]
    /\ pc[p] = "final_exec" =>
         /\ total_inserted[p] = Len(Flatten(committed[p])) + Len(pending_rows[p])
         /\ total_inserted[p] = FoodsPerAnswer * runs[p]
    /\ resp[p].statusCode = 200 =>
         /\ resp[p].body.inserted_rows = Len(Flatten(committed[p]))
         /\ resp[p].body.inserted_rows = StoredBy(p)

C20_Witness ==
  /\ pc[1] = "flush_exec" /\ i[1] = BatchRuns - 1
  /\ total_inserted[1] = FullBatch /\ committed[1] = <<>>
  /\ Len(pending_rows[1]) = FullBatch

====
